---- MODULE Spec2Model ----
(***************************************************************************)
(* Ledger of Awwal2007/sofi-server: the user and transaction collections   *)
(* and the request handlers of src/routes/account.js that read and write   *)
(* them (register, transfer, cancel, admin status update).                 *)
(*                                                                         *)
(* A handler is a sequence of steps, one per awaited database operation;   *)
(* the synchronous code that follows an await belongs to the same step.    *)
(* Handlers of different requests interleave at these steps.               *)
(***************************************************************************)
EXTENDS Integers, Sequences, FiniteSets, TLC

\* ------------------------------------------------------------------ bounds
\* Transfer and mirrored records the log may hold besides opening deposits.
MaxRecords == 3
\* Last instant of the clock.
MaxTime == 2
\* Instants per calendar day.
TicksPerDay == 2
\* Transfers of one account that may have been submitted at once and have all
\* completed before the first state of SpecLimit.
MaxBurst == 17

\* --------------------------------------------------------------- constants
\* routes/account.js:599 and :611, :623 (opening balance and deposit).
InitialDeposit == 1000
\* routes/account.js:328
dailyLimit == 10000
\* routes/account.js:355
transferFee == 0

Users == {1, 2}
\* The users who submit transfers; the others receive, cancel and register.
Senders == {1}
\* Two requests may be in flight at once.
Slots == {1, 2}
\* The amounts of transfer requests: the whole opening balance, or half of
\* it (SpecPartial).
Amounts == {1000}
PartialAmounts == {500}
NoTime == -1
NoUser == 0

\* user.accountNumber: generateAccountNumber (user model, lines 119-130)
\* loops until the number is unused, so numbers are distinct per user.  A
\* number is held by nobody until its user registers.
AccountNumber(u) == IF u = 1 THEN "AC1" ELSE "AC2"
AccountNumbers == {AccountNumber(u) : u \in Users}

VARIABLES
    users,          \* the User collection: user -> [exists, balance]
    transactions,   \* the Transaction collection, in insertion order; the
                    \* position of a record is its _id
    reqs,           \* requests in flight: slot -> handler position and locals
    now             \* the clock

vars == <<users, transactions, reqs, now>>

\* ----------------------------------------------------------------- helpers
Ids == 1..Len(transactions)

\* A document that was never constructed.
NoDoc == [userId |-> NoUser, transactionId |-> 0, type |-> "none",
          category |-> "none", amount |-> 0, fees |-> 0, netAmount |-> 0,
          status |-> "none", sender |-> "none", receiver |-> "none",
          notes |-> "", completedAt |-> NoTime, createdAt |-> NoTime]

Idle == [kind |-> "none", pc |-> "idle", caller |-> NoUser,
         toAccount |-> "none", amount |-> 0, id |-> 0, status |-> "none",
         user |-> 0, transaction |-> NoDoc, receiver |-> NoUser,
         res |-> "none"]

\* Transaction.generateTransactionId (models/transaction.js:80-84): the
\* string TRX<milliseconds><4 random digits>.  Only equality of identifiers
\* matters.  The result is a new identifier (represented by the least unused
\* number), or it collides with one held by a request in flight, or with a
\* stored one (represented by the oldest: the insert is rejected alike
\* whichever stored record holds the identifier).
IdsInFlight == {reqs[r].transaction.transactionId : r \in Slots} \ {0}
IdsStored == {transactions[i].transactionId : i \in Ids}
IdsInUse == IdsInFlight \cup IdsStored

generateTransactionId ==
    {CHOOSE n \in 1..(Cardinality(IdsInUse) + 1) : n \notin IdsInUse}
        \cup IdsInFlight
        \cup (IF transactions = <<>> THEN {} ELSE {transactions[1].transactionId})

\* A collection without the unique index: no insert is rejected.
NoUniqueIndex(doc) == FALSE

\* transactionId is declared unique (models/transaction.js:9-13): the
\* unique index rejects the insert of a second record with the same value.
DuplicateKey(doc) ==
    \E i \in Ids : transactions[i].transactionId = doc.transactionId

\* A window that opens at the instant of the request instead of at midnight.
StartOfInstant(t) == t

\* today.setHours(0, 0, 0, 0) (routes/account.js:317-318)
StartOfDay(t) == t - (t % TicksPerDay)

\* --------------------------------------------------------------------- Init
Init ==
    /\ users = [u \in Users |-> [exists |-> FALSE, balance |-> 0]]
    /\ transactions = <<>>
    /\ reqs = [r \in Slots |-> Idle]
    /\ now = 0

\* A slot is free when it holds no request, or one that has been answered.
\* A new request takes the lowest free slot (slots are interchangeable).
Free(r) == reqs[r].pc \in {"idle", "done"}
FreeSlot(r) ==
    /\ Free(r)
    /\ \A q \in Slots : q < r => ~Free(q)

\* Slot r continues as req.  An answered request leaves its slot with the
\* next step of any handler: a response is in the state for one step.
Put(r, req) ==
    [q \in Slots |-> IF q = r THEN req
                     ELSE IF reqs[q].pc = "done" THEN Idle ELSE reqs[q]]

\* The response: the handler's documents are dropped, the request's inputs
\* and its local user copy are kept with the message sent.
Finish(r, res) ==
    Put(r, [reqs[r] EXCEPT !.pc = "done", !.res = res, !.transaction = NoDoc])

\* ----------------------------------------------------------------- register
\* router.post('/register'), lines 575-603: the user is created with the
\* opening balance.  A second registration of the same email or SSN is
\* rejected (lines 575-584).  Users are numbered in the order they register.
RegisterUser(r, u) ==
    /\ FreeSlot(r)
    /\ ~users[u].exists
    /\ \A v \in Users : v < u => users[v].exists
    /\ users' = [users EXCEPT ![u] = [exists |-> TRUE, balance |-> InitialDeposit]]
    /\ reqs' = Put(r, [Idle EXCEPT !.kind = "register", !.caller = u,
                                                 !.pc = "initialTransaction"])
    /\ UNCHANGED <<transactions, now>>

\* new transactionModel({...}), lines 607-624.
initialTransaction(u, tid, t) ==
    [userId |-> u, transactionId |-> tid, type |-> "credit",
     category |-> "deposit", amount |-> InitialDeposit, fees |-> 0,
     netAmount |-> InitialDeposit, status |-> "completed",
     sender |-> "SYSTEM001", receiver |-> AccountNumber(u),
     notes |-> "", completedAt |-> NoTime, createdAt |-> t]

\* router.post('/register'), lines 605-649: the opening deposit record is
\* built and saved.
RegisterDeposit(r) ==
    /\ reqs[r].kind = "register"
    /\ reqs[r].pc = "initialTransaction"
    /\ \E tid \in generateTransactionId :
        LET doc == initialTransaction(reqs[r].caller, tid, now) IN
        IF DuplicateKey(doc)
        THEN /\ reqs' = Finish(r, "Server error during registration")
             /\ UNCHANGED transactions
        ELSE /\ reqs' = Finish(r, "User registered successfully")
             /\ transactions' = Append(transactions, doc)
    /\ UNCHANGED <<users, now>>

\* ----------------------------------------------------------------- transfer
\* Records other than opening deposits, stored or about to be stored: the
\* specifications admit a request that may add a record while there is room.
Appenders ==
    {r \in Slots : /\ reqs[r].pc # "done"
                   /\ \/ reqs[r].kind = "transfer"
                      \/ reqs[r].kind = "admin" /\ reqs[r].status = "completed"}
Room ==
    Cardinality({i \in Ids : transactions[i].category # "deposit"})
        + Cardinality(Appenders) < MaxRecords

\* A test that compares the destination with a field the user does not have.
OwnAccountUnset(u, toAccount) == toAccount = "none"

\* The test of line 301.
OwnAccount(u, toAccount) == toAccount = AccountNumber(u)

\* A test weaker than that of line 309: only an overdrawn account is refused.
InsufficientFundsOverdrawn(balance, amount) == balance < 0

\* The test of line 309, on the balance of the caller's user document.
InsufficientFunds(balance, amount) == balance < amount

\* router.post('/transfer'), lines 297-314.  req.user is the caller's user
\* document as the auth middleware loaded it: a copy of the stored one.
TransferBegin(r, u, toAccount, amount) ==
    /\ FreeSlot(r)
    /\ users[u].exists
    /\ LET user == users[u].balance
           req == [Idle EXCEPT !.kind = "transfer", !.caller = u,
                               !.toAccount = toAccount, !.amount = amount,
                               !.user = user]
       IN reqs' = Put(r,
            IF OwnAccount(u, toAccount)
            THEN [req EXCEPT !.pc = "done", !.res = "Cannot transfer to your own account"]
            ELSE IF InsufficientFunds(user, amount)
            THEN [req EXCEPT !.pc = "done", !.res = "Insufficient funds"]
            ELSE [req EXCEPT !.pc = "todaysTransfers"])
    /\ UNCHANGED <<users, transactions, now>>

\* The query of lines 320-325 without its status filter.
todaysTransfersAnyStatus(u, t) ==
    SelectSeq(transactions,
              LAMBDA d : /\ d.userId = u
                         /\ d.type = "transfer"
                         /\ d.createdAt >= StartOfDay(t))

\* Transaction.find({userId, type: 'transfer', status: 'completed',
\* createdAt: {$gte: today}}), lines 317-325.
todaysTransfers(u, t) ==
    SelectSeq(transactions,
              LAMBDA d : /\ d.userId = u
                         /\ d.type = "transfer"
                         /\ d.status = "completed"
                         /\ d.createdAt >= StartOfDay(t))

RECURSIVE todaysTotal(_)
\* todaysTransfers.reduce((sum, t) => sum + t.amount, 0), line 327.
todaysTotal(ts) == IF ts = <<>> THEN 0 ELSE Head(ts).amount + todaysTotal(Tail(ts))

\* The limit test of line 330.
LimitExceeded(u, amount, t) == todaysTotal(todaysTransfers(u, t)) + amount > dailyLimit

\* A document whose net amount keeps the fee it records.
NewTransferFeeKept(u, toAccount, amount, tid, t) ==
    [userId |-> u, transactionId |-> tid, type |-> "transfer",
     category |-> "transfer", amount |-> amount, fees |-> transferFee + 1,
     netAmount |-> amount, status |-> "pending",
     sender |-> AccountNumber(u), receiver |-> toAccount,
     notes |-> "", completedAt |-> NoTime, createdAt |-> t]

\* new Transaction({...}), lines 354-383.
NewTransfer(u, toAccount, amount, tid, t) ==
    [userId |-> u, transactionId |-> tid, type |-> "transfer",
     category |-> "transfer", amount |-> amount, fees |-> transferFee,
     netAmount |-> amount - transferFee, status |-> "pending",
     sender |-> AccountNumber(u), receiver |-> toAccount,
     notes |-> "", completedAt |-> NoTime, createdAt |-> t]

\* router.post('/transfer'), lines 316-383: the daily limit, then the
\* transaction document is built (the recipient is not looked up).
TransferDailyLimit(r) ==
    /\ reqs[r].kind = "transfer"
    /\ reqs[r].pc = "todaysTransfers"
    /\ \E tid \in generateTransactionId :
        LET q == reqs[r] IN
        reqs' = Put(r,
            IF LimitExceeded(q.caller, q.amount, now)
            THEN [q EXCEPT !.pc = "done", !.res = "Daily transfer limit exceeded"]
            ELSE [q EXCEPT !.pc = "countDocuments",
                           !.transaction = NewTransfer(q.caller, q.toAccount,
                                                       q.amount, tid, now)])
    /\ UNCHANGED <<users, transactions, now>>

\* Transaction.countDocuments({userId, type: 'transfer', status: 'completed'}),
\* lines 387-391.
completedTransfers(u) ==
    Cardinality({i \in Ids : /\ transactions[i].userId = u
                             /\ transactions[i].type = "transfer"
                             /\ transactions[i].status = "completed"})

\* The test of line 393: the transfer is processed at once.
ProcessNow(u) == completedTransfers(u) = 0

\* router.post('/transfer'), lines 387-398: the count, and on zero the
\* document and the local user copy are updated.
TransferCount(r) ==
    /\ reqs[r].kind = "transfer"
    /\ reqs[r].pc = "countDocuments"
    /\ LET q == reqs[r] IN
       reqs' = Put(r,
            IF ProcessNow(q.caller)
            THEN [q EXCEPT !.pc = "userSave",
                           !.transaction.status = "completed",
                           !.transaction.completedAt = now,
                           !.user = q.user - q.amount]
            ELSE [q EXCEPT !.pc = "transactionSave"])
    /\ UNCHANGED <<users, transactions, now>>

\* A save that subtracts the amount from the stored balance and skips the
\* schema's validation (an update with $inc).
TransferIncUser(r) ==
    /\ reqs[r].kind = "transfer"
    /\ reqs[r].pc = "userSave"
    /\ users' = [users EXCEPT ![reqs[r].caller].balance = @ - reqs[r].amount]
    /\ reqs' = Put(r, [reqs[r] EXCEPT !.pc = "transactionSave"])
    /\ UNCHANGED <<transactions, now>>

\* await user.save(), line 399: the modified path, balance, is written with
\* the value of the local copy.  The schema's min: 0 (user model, lines
\* 49-53) is validated on save.
TransferSaveUser(r) ==
    /\ reqs[r].kind = "transfer"
    /\ reqs[r].pc = "userSave"
    /\ IF reqs[r].user < 0
       THEN /\ reqs' = Finish(r, "Server error processing transfer")
            /\ UNCHANGED users
       ELSE /\ users' = [users EXCEPT ![reqs[r].caller].balance = reqs[r].user]
            /\ reqs' = Put(r, [reqs[r] EXCEPT !.pc = "transactionSave"])
    /\ UNCHANGED <<transactions, now>>

\* await transaction.save(), line 405, and the response of lines 435-447.
TransferSaveTransaction(r) ==
    /\ reqs[r].kind = "transfer"
    /\ reqs[r].pc = "transactionSave"
    /\ IF DuplicateKey(reqs[r].transaction)
       THEN /\ reqs' = Finish(r, "Server error processing transfer")
            /\ UNCHANGED transactions
       ELSE /\ transactions' = Append(transactions, reqs[r].transaction)
            /\ reqs' = Finish(r, IF reqs[r].transaction.status = "completed"
                                 THEN "Transfer completed" ELSE "Transfer pending")
    /\ UNCHANGED <<users, now>>

\* ----------------------------------------------------------------- schedule
\* The values the schema admits for status (models/transaction.js:33-37);
\* a document with another value fails validation on save.
StatusEnum == {"pending", "completed", "failed", "cancelled"}

\* new Transaction({...}), lines 476-496: status 'scheduled', netAmount the
\* amount, fees left to the schema's default.
ScheduledTransfer(u, toAccount, amount, tid, t) ==
    [userId |-> u, transactionId |-> tid, type |-> "transfer",
     category |-> "transfer", amount |-> amount, fees |-> 0,
     netAmount |-> amount, status |-> "scheduled",
     sender |-> AccountNumber(u), receiver |-> toAccount,
     notes |-> "", completedAt |-> NoTime, createdAt |-> t]

\* router.post('/schedule'), lines 452-509: the document is built and
\* saved; a save that fails is answered by the catch block.
ScheduleTransfer(r, u, toAccount, amount) ==
    /\ FreeSlot(r)
    /\ users[u].exists
    /\ \E tid \in generateTransactionId :
        LET doc == ScheduledTransfer(u, toAccount, amount, tid, now)
            req == [Idle EXCEPT !.kind = "schedule", !.caller = u,
                                !.toAccount = toAccount, !.amount = amount,
                                !.pc = "done"]
        IN IF doc.status \notin StatusEnum \/ DuplicateKey(doc)
           THEN /\ reqs' = Put(r, [req EXCEPT !.res = "Server error scheduling transfer"])
                /\ UNCHANGED transactions
           ELSE /\ reqs' = Put(r, [req EXCEPT !.res = "Transfer scheduled successfully"])
                /\ transactions' = Append(transactions, doc)
    /\ UNCHANGED <<users, now>>

\* ------------------------------------------------------------------- cancel
\* The query of lines 514-518 without its status filter.
FindOwned(id, u) ==
    /\ id \in Ids
    /\ transactions[id].userId = u

\* The query of lines 514-518 with a filter that also admits completed
\* records.
FindNotCancelled(id, u) ==
    /\ id \in Ids
    /\ transactions[id].userId = u
    /\ transactions[id].status \in {"pending", "completed"}

\* The query of lines 514-518 without its userId filter.
FindAnyPending(id, u) ==
    /\ id \in Ids
    /\ transactions[id].status = "pending"

\* Transaction.findOne({_id, userId, status: 'pending'}), lines 514-518.
FindPending(id, u) ==
    /\ id \in Ids
    /\ transactions[id].userId = u
    /\ transactions[id].status = "pending"

\* router.post('/:id/cancel'), lines 514-528.
CancelFind(r, u, id) ==
    /\ FreeSlot(r)
    /\ users[u].exists
    /\ LET req == [Idle EXCEPT !.kind = "cancel", !.caller = u, !.id = id] IN
       reqs' = Put(r,
            IF FindPending(id, u)
            THEN [req EXCEPT !.pc = "transactionSave", !.status = "cancelled"]
            ELSE [req EXCEPT !.pc = "done", !.res = "Pending transaction not found"])
    /\ UNCHANGED <<users, transactions, now>>

\* A cancellation that also returns the amount to the caller's balance.
CancelRefund(r) ==
    /\ reqs[r].kind = "cancel"
    /\ reqs[r].pc = "transactionSave"
    /\ transactions' = [transactions EXCEPT ![reqs[r].id].status = reqs[r].status,
                                            ![reqs[r].id].notes = "Cancelled by user"]
    /\ users' = [users EXCEPT ![reqs[r].caller].balance =
                                  @ + transactions[reqs[r].id].amount]
    /\ reqs' = Finish(r, "Transaction cancelled successfully")
    /\ UNCHANGED now

\* await transaction.save(), line 529: the modified paths, status and notes,
\* are written to the record with the document's _id.
CancelSave(r) ==
    /\ reqs[r].kind = "cancel"
    /\ reqs[r].pc = "transactionSave"
    /\ transactions' = [transactions EXCEPT ![reqs[r].id].status = reqs[r].status,
                                            ![reqs[r].id].notes = "Cancelled by user"]
    /\ reqs' = Finish(r, "Transaction cancelled successfully")
    /\ UNCHANGED <<users, now>>

\* -------------------------------------------------------------------- admin
\* The statuses a caller may ask for; "pending" stands for every value the
\* test of line 866 refuses.
RequestedStatuses == {"completed", "failed", "cancelled", "pending"}

\* await transactionModel.save(), line 938: transactionModel is the model,
\* not the document, and has no save function.  The call throws, the
\* document's new status and completion time are never written, and the
\* handler answers 500 (lines 946-952).  The collection is left as it is.
transactionModelSave(txs, id, status, t) == txs

\* The test of line 866.
ValidStatus(status) == status \in {"completed", "failed", "cancelled"}

\* A test that refuses completed records only.
IsCompleted(tx) == tx.status = "completed"

\* A test that runs the completion block for every status asked for.
IsAnyStatus(status) == TRUE

\* The test of line 893.
IsCompletion(status) == status = "completed"

\* The test of line 883.
NotPending(tx) == tx.status # "pending"

\* router.put('/transactions/:id/status'), lines 864-891, and for a status
\* other than completed the rest of the handler, lines 938-952.
AdminFind(r, id, status) ==
    /\ FreeSlot(r)
    /\ LET req == [Idle EXCEPT !.kind = "admin", !.id = id, !.status = status] IN
       IF ~ValidStatus(status)
       THEN /\ reqs' = Put(r, [req EXCEPT !.pc = "done", !.res = "Invalid status"])
            /\ UNCHANGED transactions
       ELSE IF id \notin Ids
       THEN /\ reqs' = Put(r, [req EXCEPT !.pc = "done", !.res = "Transaction not found"])
            /\ UNCHANGED transactions
       ELSE IF NotPending(transactions[id])
       THEN /\ reqs' = Put(r,
                    [req EXCEPT !.pc = "done",
                                !.res = "Only pending transactions can be updated"])
            /\ UNCHANGED transactions
       ELSE IF IsCompletion(status)
       THEN /\ reqs' = Put(r,
                    [req EXCEPT !.pc = "updateBalances",
                                !.transaction = transactions[id]])
            /\ UNCHANGED transactions
       ELSE /\ transactions' = transactionModelSave(transactions, id, status, NoTime)
            /\ reqs' = Put(r,
                    [req EXCEPT !.pc = "done",
                                !.res = "Server error updating transaction status"])
    /\ UNCHANGED <<users, now>>

\* userModel.findOne({accountNumber}), line 898.
FindByAccountNumber(a) ==
    IF \E u \in Users : users[u].exists /\ AccountNumber(u) = a
    THEN CHOOSE u \in Users : users[u].exists /\ AccountNumber(u) = a
    ELSE NoUser

\* The balance a user document is saved with, or the stored one when the
\* schema's min: 0 refuses the save.
SavedBalance(us, u, balance) ==
    IF balance < 0 THEN us ELSE [us EXCEPT ![u].balance = balance]

\* Lines 896-908: the sender is debited when the record's type is 'debit',
\* the receiver credited when it is 'credit'.
UpdateBalances(us, tx, sender, receiver) ==
    LET debited ==
            IF sender # NoUser /\ tx.type = "debit"
            THEN SavedBalance(us, sender, us[sender].balance - tx.amount)
            ELSE us
    IN  IF receiver # NoUser /\ tx.type = "credit"
        THEN SavedBalance(debited, receiver, debited[receiver].balance + tx.netAmount)
        ELSE debited

\* A save of lines 902 or 907 that validation refuses ends the handler.
UpdateRefused(us, tx, sender, receiver) ==
    \/ sender # NoUser /\ tx.type = "debit" /\ us[sender].balance - tx.amount < 0

\* router.put('/transactions/:id/status'), lines 893-908, and when no
\* receiver is found the rest of the handler, lines 938-952.
AdminUpdateBalances(r) ==
    /\ reqs[r].kind = "admin"
    /\ reqs[r].pc = "updateBalances"
    /\ LET tx == reqs[r].transaction
           sender == tx.userId
           receiver == FindByAccountNumber(tx.receiver)
       IN /\ users' = UpdateBalances(users, tx, sender, receiver)
          /\ IF UpdateRefused(users, tx, sender, receiver)
             THEN /\ reqs' = Finish(r, "Server error updating transaction status")
                  /\ UNCHANGED transactions
             ELSE IF receiver # NoUser
             THEN /\ reqs' = Put(r, [reqs[r] EXCEPT !.pc = "receiverTransaction",
                                                           !.receiver = receiver])
                  /\ UNCHANGED transactions
             ELSE /\ transactions' = transactionModelSave(transactions, reqs[r].id,
                                                          reqs[r].status, now)
                  /\ reqs' = Finish(r, "Server error updating transaction status")
    /\ UNCHANGED now

\* new transactionModel({...}), lines 912-932.
receiverTransaction(tx, receiver, tid, t) ==
    [userId |-> receiver, transactionId |-> tid, type |-> "credit",
     category |-> "transfer", amount |-> tx.netAmount, fees |-> 0,
     netAmount |-> tx.netAmount, status |-> "completed",
     sender |-> AccountNumber(tx.userId), receiver |-> AccountNumber(receiver),
     notes |-> "", completedAt |-> t, createdAt |-> t]

\* receiver.userId is declared a Number (models/transaction.js:48-53) and is
\* given receiver._id, an ObjectId (line 927).  The cast succeeds only for
\* an ObjectId whose 24 hexadecimal digits read as a decimal numeral;
\* otherwise the document fails validation and is not saved.
CastsToNumber == BOOLEAN

\* router.put('/transactions/:id/status'), lines 910-952: the receiver's
\* record is saved, then line 938 ends the handler.
AdminReceiverTransaction(r) ==
    /\ reqs[r].kind = "admin"
    /\ reqs[r].pc = "receiverTransaction"
    /\ \E tid \in generateTransactionId, cast \in CastsToNumber :
        LET doc == receiverTransaction(reqs[r].transaction, reqs[r].receiver, tid, now) IN
        IF ~cast \/ DuplicateKey(doc)
        THEN UNCHANGED transactions
        ELSE transactions' = Append(transactionModelSave(transactions, reqs[r].id,
                                                         reqs[r].status, now), doc)
    /\ reqs' = Finish(r, "Server error updating transaction status")
    /\ UNCHANGED <<users, now>>

\* ------------------------------------------------------- the account itself
\* PUT /update, POST /login and POST /change-password (routes/account.js:
\* 91-118, 652-712, 730-770) each set paths of a user document and save it.
\* Of a user document the model keeps the balance; the request bodies below
\* name one path that the handler accepts and the balance.
allowedUpdates == {"name", "phone", "address", "email"}

UpdateBodies ==
    {[name |-> "n"],
     [balance |-> InitialDeposit * 5],
     [name |-> "n", balance |-> InitialDeposit * 5]}

\* A filter that lets every key of the body through.
AllKeys(updates) == updates

\* Object.keys(updates).forEach(key => { if (allowedUpdates.includes(key))
\* req.user[key] = updates[key] }), lines 97-101: the paths that are set.
Allowed(updates) ==
    [k \in DOMAIN updates \cap allowedUpdates |-> updates[k]]

\* document.save(): the modified paths, and no other, are written to the
\* stored document.
SaveModified(doc, modified) ==
    [k \in DOMAIN doc |-> IF k \in DOMAIN modified THEN modified[k] ELSE doc[k]]

\* PUT /update by user u with body updates.  The slot keeps in amount the
\* balance that the body names, 0 when it names none.
UpdateAccount(r, u, updates) ==
    /\ FreeSlot(r)
    /\ users[u].exists
    /\ users' = [users EXCEPT ![u] = SaveModified(@, Allowed(updates))]
    /\ reqs' = Put(r, [Idle EXCEPT !.kind = "update", !.pc = "done",
                                   !.caller = u,
                                   !.amount = IF "balance" \in DOMAIN updates
                                              THEN updates.balance ELSE 0,
                                   !.res = "Account updated successfully"])
    /\ UNCHANGED <<transactions, now>>

\* POST /login for the email of user u; isMatch is the result of
\* comparePassword.  On success lastLogin is set and saved, lines 688-689.
Login(r, u, isMatch) ==
    /\ FreeSlot(r)
    /\ IF users[u].exists /\ isMatch
       THEN /\ users' = [users EXCEPT ![u] = SaveModified(@, [lastLogin |-> now])]
            /\ reqs' = Put(r, [Idle EXCEPT !.kind = "login", !.pc = "done",
                                           !.caller = u,
                                           !.res = "Login successful"])
       ELSE /\ users' = users
            /\ reqs' = Put(r, [Idle EXCEPT !.kind = "login", !.pc = "done",
                                           !.caller = u,
                                           !.res = "Invalid credentials"])
    /\ UNCHANGED <<transactions, now>>

\* POST /change-password by user u; isMatch is the result of comparePassword
\* on the current password.  On success password is set and saved, lines
\* 755-756.
ChangePassword(r, u, isMatch) ==
    /\ FreeSlot(r)
    /\ users[u].exists
    /\ IF isMatch
       THEN /\ users' = [users EXCEPT ![u] = SaveModified(@, [password |-> "p"])]
            /\ reqs' = Put(r, [Idle EXCEPT !.kind = "password", !.pc = "done",
                                           !.caller = u,
                                           !.res = "Password changed successfully"])
       ELSE /\ users' = users
            /\ reqs' = Put(r, [Idle EXCEPT !.kind = "password", !.pc = "done",
                                           !.caller = u,
                                           !.res = "Current password is incorrect"])
    /\ UNCHANGED <<transactions, now>>

\* The clock advances.
Tick ==
    /\ now < MaxTime
    /\ now' = now + 1
    /\ UNCHANGED <<users, transactions, reqs>>

\* The handlers, with transfer amounts drawn from A.
Handlers(A) ==
    \/ \E r \in Slots, u \in Users : RegisterUser(r, u)
    \/ \E r \in Slots : RegisterDeposit(r)
    \/ \E r \in Slots, u \in Senders, a \in AccountNumbers, m \in A :
            Room /\ TransferBegin(r, u, a, m)
    \/ \E r \in Slots : TransferDailyLimit(r)
    \/ \E r \in Slots : TransferCount(r)
    \/ \E r \in Slots : TransferSaveUser(r)
    \/ \E r \in Slots : TransferSaveTransaction(r)
    \/ \E r \in Slots, u \in Senders, a \in AccountNumbers, m \in A :
            Room /\ ScheduleTransfer(r, u, a, m)
    \/ \E r \in Slots, u \in Users, id \in 1..(Len(transactions) + 1) :
            CancelFind(r, u, id)
    \/ \E r \in Slots : CancelSave(r)
    \/ \E r \in Slots, id \in 1..(Len(transactions) + 1), st \in RequestedStatuses :
            (st = "completed" => Room) /\ AdminFind(r, id, st)
    \/ \E r \in Slots : AdminUpdateBalances(r)
    \/ \E r \in Slots : AdminReceiverTransaction(r)

Next == Handlers(Amounts)

Spec == Init /\ [][Next]_vars

\* The same system with transfers of half the opening balance: a sender
\* keeps funds after a completed transfer.
NextPartial == Handlers(PartialAmounts)

SpecPartial == Init /\ [][NextPartial]_vars

\* The handlers of Spec together with those that save the account itself.
NextAccount ==
    \/ Next
    \/ \E r \in Slots, u \in Users, updates \in UpdateBodies :
            UpdateAccount(r, u, updates)
    \/ \E r \in Slots, u \in Users, isMatch \in BOOLEAN : Login(r, u, isMatch)
    \/ \E r \in Slots, u \in Users, isMatch \in BOOLEAN :
            ChangePassword(r, u, isMatch)

SpecAccount == Init /\ [][NextAccount]_vars

\* ------------------------------------------------------------ the daily limit
\* The balance test of line 309 admits no amount above the balance, and no
\* handler raises a balance above the opening one, so the completed transfers
\* of a day exceed the limit of line 328 only when more than dailyLimit /
\* InitialDeposit requests were in progress at once: each read the balance
\* before any wrote it, each counted no completed transfer (line 393), each
\* saved the same balance (line 399) and its own completed record (line 405).
\* SpecLimit starts in the states such a burst of k requests of BurstAmount
\* leaves, k = 0 included, with both users registered.  The burst is user
\* 1's, or it is a full burst of user 2's at time 0.
BurstAmount == (InitialDeposit * 3) \div 5
LimitAmounts == {InitialDeposit - BurstAmount}

\* The log after both registrations and a burst of k transfers of user b
\* built at time t: records 1 and 2 are the opening deposits.
BurstLog(k, t, b) ==
    [i \in 1..(k + 2) |->
        IF i <= 2
        THEN initialTransaction(i, i, 0)
        ELSE [NewTransfer(b, AccountNumber(CHOOSE v \in Users : v # b),
                          BurstAmount, i, t)
                EXCEPT !.status = "completed", !.completedAt = t]]

InitLimit ==
    \E k \in 0..MaxBurst, t \in 0..(TicksPerDay - 1), b \in Users :
        /\ b \in Senders \/ (k = MaxBurst /\ t = 0)
        /\ users = [u \in Users |->
                        [exists |-> TRUE,
                         balance |-> IF u = b /\ k > 0
                                     THEN InitialDeposit - BurstAmount
                                     ELSE InitialDeposit]]
        /\ transactions = BurstLog(k, t, b)
        /\ reqs = [r \in Slots |-> Idle]
        /\ now = t

\* The transfers submitted after the burst.
RoomLimit ==
    Cardinality({i \in Ids : transactions[i].amount \in LimitAmounts})
        + Cardinality(Appenders) < MaxRecords

NextLimit ==
    \/ Tick
    \/ \E r \in Slots, u \in Senders, a \in AccountNumbers, m \in LimitAmounts :
            RoomLimit /\ TransferBegin(r, u, a, m)
    \/ \E r \in Slots : TransferDailyLimit(r)
    \/ \E r \in Slots : TransferCount(r)
    \/ \E r \in Slots : TransferSaveUser(r)
    \/ \E r \in Slots : TransferSaveTransaction(r)

SpecLimit == InitLimit /\ [][NextLimit]_vars

\* ================================================================== claims
Terminal == {"completed", "failed", "cancelled"}

RECURSIVE SumField(_, _)
SumField(ts, net) ==
    IF ts = <<>> THEN 0
    ELSE (IF net THEN Head(ts).netAmount ELSE Head(ts).amount) + SumField(Tail(ts), net)

\* The completed debit and transfer records of account u.
CompletedDebits(u) ==
    SelectSeq(transactions,
              LAMBDA d : /\ d.userId = u
                         /\ d.type \in {"debit", "transfer"}
                         /\ d.status = "completed")

\* The completed credit records of account u, other than the record of the
\* opening deposit, which documents the initial balance itself.
CompletedCredits(u) ==
    SelectSeq(transactions,
              LAMBDA d : /\ d.userId = u
                         /\ d.type = "credit"
                         /\ d.category # "deposit"
                         /\ d.status = "completed")

\* C1: in every reachable state in which no request is in progress, every
\* account's balance is its initial balance plus the net amounts of the
\* completed credits to it minus the amounts of the completed debits and
\* transfers from it.
C1_BalanceEquation ==
    \A u \in Users :
        (users[u].exists /\ \A r \in Slots : Free(r)) =>
            users[u].balance = InitialDeposit + SumField(CompletedCredits(u), TRUE)
                                              - SumField(CompletedDebits(u), FALSE)

\* The request of slot r is of the given kind and has been answered.
Answered(r, kind) == reqs[r].kind = kind /\ reqs[r].pc = "done"

\* C2 (N = 2, M = the opening balance): of the transfers of M submitted from
\* an account holding exactly M, one completes and every other one fails
\* with insufficient funds, and the account is never debited more than M.
C2_OneCompletesOthersFail ==
    \A u \in Senders :
        /\ SumField(CompletedDebits(u), FALSE) <= InitialDeposit
        /\ \A r \in Slots :
            (/\ Answered(r, "transfer")
             /\ reqs[r].caller = u
             /\ reqs[r].amount = InitialDeposit
             /\ ~OwnAccount(u, reqs[r].toAccount)
             /\ Len(CompletedDebits(u)) >= 1)
            => \/ reqs[r].res = "Insufficient funds"
               \/ reqs[r].res = "Transfer completed" /\ Len(CompletedDebits(u)) = 1

\* C3: the balance write and the log write of a completion are one unit: in
\* no reachable state has an account's balance changed without a completed
\* transfer record of the account being stored, nor is such a record
\* stored while the balance is unchanged.
C3_AtomicCommit ==
    \A u \in Users :
        users[u].exists =>
            (users[u].balance # InitialDeposit
                <=> (CompletedDebits(u) # <<>> \/ CompletedCredits(u) # <<>>))

\* ------------------------------------------------------------------ C4
\* A step in which a request of the given kind enters slot r.
Submits(r, kind) ==
    /\ Free(r)
    /\ reqs'[r] # reqs[r]
    /\ reqs'[r].kind = kind

\* The request that entered slot r is answered with res and nothing is
\* written.
Refused(r, res) ==
    /\ reqs'[r].pc = "done"
    /\ reqs'[r].res = res
    /\ users' = users
    /\ transactions' = transactions

\* The amount of the transfer entering slot r exceeds the stored balance of
\* its sender.
Overdraws(r) == reqs'[r].amount > users[reqs'[r].caller].balance

\* C4 as stated: every transfer request whose amount exceeds the sender's
\* balance fails with insufficient funds, stores no record and changes no
\* balance.
C4_Original ==
    [][\A r \in Slots :
        (Submits(r, "transfer") /\ Overdraws(r)) => Refused(r, "Insufficient funds")]_vars

\* C4, amended: a transfer request to an account other than the sender's own
\* whose amount exceeds the sender's balance fails with insufficient funds,
\* stores no record and changes no balance.
C4_InsufficientFunds ==
    [][\A r \in Slots :
        (/\ Submits(r, "transfer")
         /\ Overdraws(r)
         /\ reqs'[r].toAccount # AccountNumber(reqs'[r].caller))
        => Refused(r, "Insufficient funds")]_vars

\* A transfer to another account for more than the sender holds has been
\* refused.
C4_Witness ==
    \E r \in Slots :
        /\ Answered(r, "transfer")
        /\ reqs[r].res = "Insufficient funds"
        /\ reqs[r].toAccount # AccountNumber(reqs[r].caller)
        /\ reqs[r].amount > users[reqs[r].caller].balance

\* ------------------------------------------------------------------ C5
\* The sum of the amounts of u's completed transfers created at or after t0.
RECURSIVE AmountOf(_)
AmountOf(ts) == IF ts = <<>> THEN 0 ELSE Head(ts).amount + AmountOf(Tail(ts))

CompletedSince(u, t0) ==
    AmountOf(SelectSeq(transactions,
                       LAMBDA d : /\ d.userId = u
                                  /\ d.type = "transfer"
                                  /\ d.status = "completed"
                                  /\ d.createdAt >= t0))

\* The first instant of the calendar day of t.
Midnight(t) == (t \div TicksPerDay) * TicksPerDay

\* The step in which the transfer of slot r evaluates the daily limit.
ChecksLimit(r) ==
    /\ reqs[r].kind = "transfer"
    /\ reqs[r].pc = "todaysTransfers"
    /\ reqs'[r].pc # "todaysTransfers"

\* The transfer of slot r, with the sender's completed transfers since t0,
\* exceeds the ceiling.
OverCeiling(r, t0) == CompletedSince(reqs[r].caller, t0) + reqs[r].amount > dailyLimit

AdminRefusals ==
    {"Invalid status", "Transaction not found",
     "Only pending transactions can be updated"}

\* The admin request of slot r passed those tests (the record was pending
\* and the status asked for is a terminal one) and has been answered.
AdminApplied(r) ==
    /\ Answered(r, "admin")
    /\ reqs[r].res \notin AdminRefusals

\* C6: once the admin status update has been applied to a pending record,
\* the record's stored status is the status asked for.
C6_StatusPersisted ==
    \A r \in Slots :
        AdminApplied(r) => transactions[reqs[r].id].status = reqs[r].status

\* ------------------------------------------------------------------ C7
\* The credit records that mirror transfer tx for its receiver.
Mirrors(tx) ==
    SelectSeq(transactions,
              LAMBDA d : /\ d.type = "credit"
                         /\ d.category = "transfer"
                         /\ d.userId = FindByAccountNumber(tx.receiver)
                         /\ d.sender = tx.sender
                         /\ d.amount = tx.netAmount)

\* C7: a transfer to a registered receiver that the admin status update has
\* forced to completed has exactly one mirrored credit record owned by
\* the receiver.
C7_OneMirror ==
    \A r \in Slots :
        (/\ AdminApplied(r)
         /\ reqs[r].status = "completed"
         /\ FindByAccountNumber(transactions[reqs[r].id].receiver) # NoUser)
        => Len(Mirrors(transactions[reqs[r].id])) = 1

\* ------------------------------------------------------------------ C8
\* The step in which the admin request of slot r, forcing a pending
\* transfer to completed, has done its balance updates.
UpdatesBalances(r) ==
    /\ reqs[r].kind = "admin"
    /\ reqs[r].pc = "updateBalances"
    /\ reqs'[r].pc # "updateBalances"

\* C8: when the admin status update completes a pending transfer whose
\* sender holds the amount, the sender's balance decreases by the amount
\* and a registered receiver's balance increases by the net amount.
C8_BalancesMoved ==
    [][\A r \in Slots :
        LET tx == reqs[r].transaction
            sender == tx.userId
            receiver == FindByAccountNumber(tx.receiver)
        IN (/\ UpdatesBalances(r)
            /\ tx.type = "transfer"
            /\ users[sender].balance >= tx.amount)
           => /\ users'[sender].balance = users[sender].balance - tx.amount
              /\ receiver # NoUser =>
                    users'[receiver].balance = users[receiver].balance + tx.netAmount]_vars

\* ------------------------------------------------------------------ C9
\* C9: a stored status that is completed, failed or cancelled is never
\* changed by any step of any handler.
C9_TerminalIsFinal ==
    [][\A i \in Ids :
        transactions[i].status \in Terminal
        => /\ i \in DOMAIN transactions'
           /\ transactions'[i].status = transactions[i].status]_vars

\* Both a cancellation and an admin status update have been applied to one
\* record: the record is cancelled and the admin request for a terminal
\* status on it has been answered.
C9_Witness ==
    \E r \in Slots :
        /\ Answered(r, "admin")
        /\ reqs[r].status \in Terminal
        /\ reqs[r].id \in Ids
        /\ transactions[reqs[r].id].status = "cancelled"

\* ----------------------------------------------------------------- C10
\* C10: a cancellation submitted for a record that is not pending is
\* answered with a failure and writes nothing; a cancellation is answered
\* with success only by the step that follows a lookup which found the
\* record pending, and that step leaves the record cancelled.
C10_CancelOnlyPending ==
    [][\A r \in Slots :
        /\ (/\ Submits(r, "cancel")
             /\ reqs'[r].id \in Ids
             /\ transactions[reqs'[r].id].status # "pending")
            => Refused(r, "Pending transaction not found")
        /\ (/\ reqs'[r] # reqs[r]
             /\ reqs'[r].kind = "cancel"
             /\ reqs'[r].res = "Transaction cancelled successfully")
            => /\ reqs[r].kind = "cancel"
               /\ reqs[r].pc = "transactionSave"
               /\ transactions[reqs[r].id].status \in {"pending", "cancelled"}
               /\ transactions'[reqs[r].id].status = "cancelled"]_vars

\* The owner's cancellation of a completed or cancelled transfer has been
\* refused.
C10_Witness ==
    \E r \in Slots :
        /\ Answered(r, "cancel")
        /\ reqs[r].res = "Pending transaction not found"
        /\ reqs[r].id \in Ids
        /\ transactions[reqs[r].id].userId = reqs[r].caller
        /\ transactions[reqs[r].id].type = "transfer"
        /\ transactions[reqs[r].id].status \in {"completed", "cancelled"}

\* ----------------------------------------------------------------- C11
\* C11: an admin status update submitted for a record that is not pending,
\* or asking for a status other than completed, failed or cancelled, is
\* refused, and it changes no record's status, changes no balance and stores
\* no record.
C11_AdminRefused ==
    [][\A r \in Slots :
        (/\ Submits(r, "admin")
         /\ \/ reqs'[r].status \notin Terminal
            \/ /\ reqs'[r].id \in Ids
               /\ transactions[reqs'[r].id].status # "pending")
        => /\ reqs'[r].pc = "done"
           /\ reqs'[r].res = IF reqs'[r].status \notin Terminal
                              THEN "Invalid status"
                              ELSE "Only pending transactions can be updated"
           /\ users' = users
           /\ transactions' = transactions]_vars

\* An admin status update asking for a terminal status on a cancelled
\* transfer has been refused.
C11_Witness ==
    \E r \in Slots :
        /\ Answered(r, "admin")
        /\ reqs[r].res = "Only pending transactions can be updated"
        /\ reqs[r].status \in Terminal
        /\ transactions[reqs[r].id].type = "transfer"
        /\ transactions[reqs[r].id].status = "cancelled"

\* ----------------------------------------------------------------- C12
\* The answers of the transfer handler's tests of lines 301, 309 and 330,
\* and its answer to a failed save.
TransferRefusals ==
    {"Cannot transfer to your own account", "Insufficient funds",
     "Daily transfer limit exceeded", "Server error processing transfer"}

\* C12: every transfer that passed the handler's tests and was stored, from
\* a sender who holds the amount, was stored completed, however many
\* transfers the sender has completed before.
C12_NoCallCountBranch ==
    \A r \in Slots :
        (/\ Answered(r, "transfer")
         /\ reqs[r].res \notin TransferRefusals
         /\ users[reqs[r].caller].balance >= reqs[r].amount)
        => reqs[r].res = "Transfer completed"

\* ----------------------------------------------------------------- C13
\* The completed credit records that mirror transfer tx for its receiver.
CompletedMirrors(tx) ==
    SelectSeq(Mirrors(tx), LAMBDA d : d.status = "completed")

\* C13: in every reachable state a sender's transfer record is completed
\* if and only if a completed credit record of the receiver mirrors it.
C13_PairCompletesTogether ==
    \A i \in Ids :
        transactions[i].type = "transfer"
        => (transactions[i].status = "completed"
                <=> CompletedMirrors(transactions[i]) # <<>>)

\* ----------------------------------------------------------------- C14
\* The step in which the transfer of slot r writes its sender's balance.
WritesBalance(r) ==
    /\ reqs[r].kind = "transfer"
    /\ reqs[r].pc = "userSave"
    /\ reqs'[r].pc = "transactionSave"

\* C14: a transfer's balance write applies the transfer's delta to the
\* balance stored at the time of the write, so that the writes of concurrent
\* transfers add up as in a serial order.
C14_NoLostUpdate ==
    [][\A r \in Slots :
        WritesBalance(r)
        => users'[reqs[r].caller].balance
               = users[reqs[r].caller].balance - reqs[r].amount]_vars

\* ----------------------------------------------------------------- C15
\* C15: a transfer whose receiving account number is held by no user is not
\* accepted: it is answered with a refusal, and no record naming that
\* account as receiver is stored.
C15_RecipientMustExist ==
    /\ \A r \in Slots :
        (/\ Answered(r, "transfer")
         /\ FindByAccountNumber(reqs[r].toAccount) = NoUser)
        => reqs[r].res \notin {"Transfer completed", "Transfer pending"}
    /\ \A i \in Ids :
        transactions[i].type = "transfer"
        => FindByAccountNumber(transactions[i].receiver) # NoUser

\* ----------------------------------------------------------------- C16
\* C16: a transfer request whose destination is the sender's own account
\* number is answered with the own-account error, stores no record and
\* changes no balance.
C16_SelfTransferRefused ==
    [][\A r \in Slots :
        (/\ Submits(r, "transfer")
         /\ reqs'[r].toAccount = AccountNumber(reqs'[r].caller))
        => Refused(r, "Cannot transfer to your own account")]_vars

\* A transfer to the sender's own account has been refused.
C16_Witness ==
    \E r \in Slots :
        /\ Answered(r, "transfer")
        /\ reqs[r].toAccount = AccountNumber(reqs[r].caller)
        /\ reqs[r].res = "Cannot transfer to your own account"

\* ----------------------------------------------------------------- C17
\* C17: once a request to schedule a transfer has been answered, the log
\* holds a record of it with status scheduled.
C17_ScheduledStored ==
    \A r \in Slots :
        Answered(r, "schedule")
        => \E i \in Ids :
            /\ transactions[i].status = "scheduled"
            /\ transactions[i].userId = reqs[r].caller
            /\ transactions[i].receiver = reqs[r].toAccount
            /\ transactions[i].amount = reqs[r].amount

\* ----------------------------------------------------------------- C18
\* C18: no account's balance is negative in any reachable state.
C18_NonNegativeBalance ==
    \A u \in Users : users[u].balance >= 0

\* Two transfers of an account have both completed, for more in total than
\* the account ever held, and its balance is zero.
C18_Witness ==
    \E u \in Users :
        /\ users[u].balance = 0
        /\ Len(CompletedDebits(u)) >= 2
        /\ SumField(CompletedDebits(u), FALSE) > InitialDeposit

\* ----------------------------------------------------------------- C19
\* C19: after every step, every stored record's net amount is its amount
\* minus its fees, and no step changes the amount of a stored record.
C19_NetAmount ==
    [][/\ \A i \in DOMAIN transactions' :
            transactions'[i].netAmount
                = transactions'[i].amount - transactions'[i].fees
       /\ \A i \in Ids :
            /\ i \in DOMAIN transactions'
            /\ transactions'[i].amount = transactions[i].amount]_vars

\* The log holds an opening deposit, a transfer and a mirrored credit.
C19_Witness ==
    \E i, j, k \in Ids :
        /\ transactions[i].category = "deposit"
        /\ transactions[j].type = "transfer"
        /\ transactions[k].type = "credit"
        /\ transactions[k].category = "transfer"

\* ----------------------------------------------------------------- C20
\* The transfer of slot r saves its document, whose identifier a stored
\* record already has.
SavesDuplicate(r) ==
    /\ reqs[r].kind = "transfer"
    /\ reqs[r].pc = "transactionSave"
    /\ reqs'[r].pc = "done"
    /\ \E i \in Ids :
        transactions[i].transactionId = reqs[r].transaction.transactionId

\* C20: after every step no two stored records have the same transactionId,
\* and the save of a document whose transactionId is already stored fails
\* and stores nothing.
C20_UniqueIds ==
    [][/\ \A i, j \in DOMAIN transactions' :
            i # j => transactions'[i].transactionId # transactions'[j].transactionId
       /\ \A r \in Slots :
            SavesDuplicate(r)
            => /\ transactions' = transactions
               /\ reqs'[r].res = "Server error processing transfer"]_vars

\* The save of a transfer has failed, and the log is not empty.
C20_Witness ==
    \E r \in Slots :
        /\ Answered(r, "transfer")
        /\ reqs[r].res = "Server error processing transfer"
        /\ transactions # <<>>

\* ----------------------------------------------------------------- C21
\* The step in which the cancellation of slot r is answered with success.
CancelSucceeds(r) ==
    /\ reqs[r].kind = "cancel"
    /\ reqs[r].pc = "transactionSave"
    /\ reqs'[r].res = "Transaction cancelled successfully"

AdminStep(r) ==
    /\ reqs'[r].kind = "admin"
    /\ reqs'[r] # reqs[r]

\* C22: no step of an admin status update that asks for a status other than
\* completed changes a balance or stores a record; only a request for
\* completed may do either.
C22_FailedCancelledFrame ==
    [][\A r \in Slots :
        (AdminStep(r) /\ reqs'[r].status # "completed")
        => /\ users' = users
           /\ Len(transactions') = Len(transactions)]_vars

\* An admin request for failed or cancelled has been applied to a pending
\* transfer whose receiver is registered.
C22_Witness ==
    \E r \in Slots :
        /\ AdminApplied(r)
        /\ reqs[r].status \in {"failed", "cancelled"}
        /\ transactions[reqs[r].id].type = "transfer"
        /\ FindByAccountNumber(transactions[reqs[r].id].receiver) # NoUser

\* ----------------------------------------------------------------- C23
\* C23: the limit test refuses a transfer exactly when its amount added to
\* the amounts of the sender's own transfers that are completed and were
\* created at or after the start of the day exceeds the ceiling: no other
\* record contributes to the sum, and none of those is left out.
C23_LimitSum ==
    [][\A r \in Slots :
        ChecksLimit(r)
        => (reqs'[r].res = "Daily transfer limit exceeded"
                <=> OverCeiling(r, Midnight(now)))]_vars

\* A transfer has passed the limit test although another account's
\* completed transfers of the day would, with its amount, exceed the
\* ceiling.
C23_Witness ==
    \E r \in Slots, v \in Users :
        /\ Answered(r, "transfer")
        /\ reqs[r].res \in {"Transfer completed", "Transfer pending"}
        /\ v # reqs[r].caller
        /\ CompletedSince(v, Midnight(now)) + reqs[r].amount > dailyLimit

\* ----------------------------------------------------------------- C24
\* C24: a step that changes the balance of a registered account is the
\* balance write of a transfer or the balance update of an admin completion;
\* an account update, also one whose body names the balance, a login, a
\* password change, a cancellation and a scheduling change no balance.
C24_BalanceFrame ==
    [][\A u \in Users :
        (users[u].exists /\ users'[u].balance # users[u].balance)
        => \E r \in Slots :
              \/ WritesBalance(r)
              \/ UpdatesBalances(r) /\ reqs[r].status = "completed"]_vars

\* An account update whose body names a balance has been answered with
\* success, and the caller's stored balance is not the one named.
C24_Witness ==
    \E r \in Slots :
        /\ Answered(r, "update")
        /\ reqs[r].res = "Account updated successfully"
        /\ reqs[r].amount # 0
        /\ users[reqs[r].caller].balance # reqs[r].amount

\* ----------------------------------------------------------------- C25
\* C25: a stored record has a completion time exactly when its status is
\* completed.
C25_CompletedIffCompletedAt ==
    \A i \in Ids :
        transactions[i].status = "completed"
            <=> transactions[i].completedAt # NoTime

\* ----------------------------------------------------------------- C26
\* C26: a cancellation that names a record of another account is answered
\* with not found and writes nothing, and a record that becomes cancelled
\* does so by a cancellation of the account that owns it.
C26_CancelOwnOnly ==
    [][/\ \A r \in Slots :
            (/\ Submits(r, "cancel")
             /\ reqs'[r].id \in Ids
             /\ transactions[reqs'[r].id].userId # reqs'[r].caller)
            => Refused(r, "Pending transaction not found")
       /\ \A i \in Ids :
            (transactions[i].status # "cancelled"
                /\ transactions'[i].status = "cancelled")
            => \E r \in Slots :
                  /\ CancelSucceeds(r)
                  /\ reqs[r].id = i
                  /\ reqs[r].caller = transactions[i].userId]_vars

\* A cancellation naming a pending transfer of another account has been
\* answered with not found, and the transfer is still pending.
C26_Witness ==
    \E r \in Slots :
        /\ Answered(r, "cancel")
        /\ reqs[r].res = "Pending transaction not found"
        /\ reqs[r].id \in Ids
        /\ transactions[reqs[r].id].type = "transfer"
        /\ transactions[reqs[r].id].status = "pending"
        /\ transactions[reqs[r].id].userId # reqs[r].caller

====
